---- MODULE Spec2Model ----
(***************************************************************************)
(* CrossFire (crossfire.py): the install / remove orchestration engine.    *)
(*                                                                         *)
(* Manager names, binaries and platform names are TLA+ strings.  A package *)
(* reference is a sequence of one-character strings, so that the           *)
(* reference-shape heuristics (substring, prefix, lower-casing, exact      *)
(* match) are computed character by character as the code computes them.   *)
(***************************************************************************)
EXTENDS Integers, Sequences, FiniteSets, TLC

(***************************************************************************)
(* Bounds of the model.                                                    *)
(***************************************************************************)
\* at most this many binaries are present on the search path
MaxBinaries == 3
\* at most this many characters follow a stem in a package reference
MaxSuffixLen == 1
\* run_command is called with at most this many retries
MaxRetries == 2
\* the update server sends at most this many 32 KB chunks
MaxChunks == 2
\* a requirements file has at most this many lines
MaxLines == 2

(***************************************************************************)
(* Sequence helpers.                                                       *)
(***************************************************************************)
Range(s) == { s[i] : i \in 1..Len(s) }

\* [x for x in s if x \in keep], order preserved
RECURSIVE FilterSeq(_, _)
FilterSeq(s, keep) ==
    IF s = <<>> THEN <<>>
    ELSE IF Head(s) \in keep THEN <<Head(s)>> \o FilterSeq(Tail(s), keep)
         ELSE FilterSeq(Tail(s), keep)

\* 1-based position of the first occurrence of x in s, 0 when absent
IndexOf(s, x) ==
    IF x \in Range(s) THEN CHOOSE i \in 1..Len(s) : s[i] = x /\ \A j \in 1..(i-1) : s[j] # x
    ELSE 0

\* all sequences over alphabet a of length at most n
RECURSIVE SeqsUpTo(_, _)
SeqsUpTo(a, n) ==
    IF n = 0 THEN { <<>> }
    ELSE LET shorter == SeqsUpTo(a, n - 1)
         IN  shorter \cup { Append(s, c) : s \in shorter, c \in a }

(***************************************************************************)
(* Python str operations on character sequences.                           *)
(***************************************************************************)
\* str.lower() on one character (the upper-case letters package references use)
LowerChar(c) ==
    CASE c = "P" -> "p"
      [] c = "Y" -> "y"
      [] c = "V" -> "v"
      [] c = "U" -> "u"
      [] c = "E" -> "e"
      [] c = "X" -> "x"
      [] OTHER -> c

\* str.lower()
str_lower(s) == [ i \in 1..Len(s) |-> LowerChar(s[i]) ]

\* str.startswith(prefix)
str_startswith(s, prefix) ==
    /\ Len(prefix) <= Len(s)
    /\ SubSeq(s, 1, Len(prefix)) = prefix

\* `sub in s`
str_contains(s, sub) ==
    \E i \in 1..(Len(s) - Len(sub) + 1) : SubSeq(s, i, i + Len(sub) - 1) = sub

\* str.lower() on the manager names a caller may pass as the preferred manager
name_lower(n) ==
    CASE n = "PIP" -> "pip"
      [] n = "Npm" -> "npm"
      [] n = "SNAP" -> "snap"
      [] OTHER -> n

(***************************************************************************)
(* Manager registry.                                                       *)
(***************************************************************************)
\* MANAGER_INSTALL_HANDLERS, in definition (dict insertion) order
MANAGER_INSTALL_HANDLERS ==
    << "pip", "npm", "apt", "dnf", "yum", "pacman", "zypper", "apk", "brew",
       "choco", "winget", "snap", "flatpak" >>

Managers == Range(MANAGER_INSTALL_HANDLERS)

\* a remove table that also has an entry for zypper
MANAGER_REMOVE_HANDLERS_WithZypper ==
    { "pip", "npm", "brew", "apt", "dnf", "yum", "pacman", "snap", "flatpak", "zypper" }

\* keys of MANAGER_REMOVE_HANDLERS
MANAGER_REMOVE_HANDLERS ==
    { "pip", "npm", "brew", "apt", "dnf", "yum", "pacman", "snap", "flatpak" }

\* the OS-native managers and the universal fallbacks of _system_manager_priority
OsNativeManagers == { "apt", "dnf", "yum", "pacman", "zypper", "apk", "brew", "winget", "choco" }
UniversalFallbacks == { "snap", "flatpak" }

(***************************************************************************)
(* The host: platform.system() and the binaries shutil.which can resolve.  *)
(***************************************************************************)
PlatformSystems == { "Linux", "Darwin", "Windows", "FreeBSD" }

\* the binaries a host may have: the manager binaries, apt-get, the running
\* interpreter ("sys.executable" stands for its path) and python3; the model's
\* hosts have no python and no py command
Binaries ==
    (Managers \ {"pip"}) \cup { "apt-get", "sys.executable", "python3" }

\* shutil.which(cmd) is not None
which(path, cmd) == cmd \in path

\* _os_type()
_os_type(system) ==
    CASE system = "Windows" -> "windows"
      [] system = "Darwin" -> "macos"
      [] system = "Linux" -> "linux"
      [] OTHER -> "unknown"

\* _get_python_commands(): sys.executable first, then the python commands found
_get_python_commands(path) ==
    << "sys.executable" >> \o FilterSeq(<< "python3", "python", "py" >>, path)

\* _detect_installed_managers(): the availability map
_detect_installed_managers(path) ==
    [ name \in Managers |->
        IF name = "pip"
        THEN \E i \in 1..Len(_get_python_commands(path)) :
                 which(path, _get_python_commands(path)[i])
        ELSE which(path, name) ]

(***************************************************************************)
(* Package-reference heuristics.                                           *)
(***************************************************************************)
\* python_indicators of _looks_like_python_pkg
python_indicators ==
    { <<"=","=">>,
      <<">","=">>,
      <<"<","=">>,
      <<"~","=">>,
      <<"!","=">>,
      <<"[">>,
      <<"]">> }

\* python_common of _looks_like_python_pkg
python_common ==
    { <<"p","y">>,
      <<"d","j","a","n","g","o">>,
      <<"f","l","a","s","k">>,
      <<"n","u","m","p","y">>,
      <<"p","a","n","d","a","s">>,
      <<"r","e","q","u","e","s","t","s">>,
      <<"b","o","t","o","3">>,
      <<"t","e","n","s","o","r","f","l","o","w">>,
      <<"t","o","r","c","h">> }

\* npm_common of _looks_like_npm_pkg
npm_common ==
    { <<"e","x","p","r","e","s","s">>,
      <<"r","e","a","c","t">>,
      <<"v","u","e">>,
      <<"a","n","g","u","l","a","r">>,
      <<"t","y","p","e","s","c","r","i","p","t">>,
      <<"e","s","l","i","n","t">>,
      <<"w","e","b","p","a","c","k">>,
      <<"l","o","d","a","s","h">>,
      <<"a","x","i","o","s">> }

\* _looks_like_python_pkg(pkg)
_looks_like_python_pkg(pkg) ==
    \/ \E indicator \in python_indicators : str_contains(pkg, indicator)
    \/ \E prefix \in python_common : str_startswith(str_lower(pkg), prefix)

\* _looks_like_npm_pkg(pkg)
_looks_like_npm_pkg(pkg) ==
    \/ str_startswith(pkg, <<"@">>)
    \/ str_lower(pkg) \in npm_common

(***************************************************************************)
(* Candidate resolution.                                                   *)
(***************************************************************************)
\* linux_managers of _system_manager_priority: manager and the commands probed
linux_managers ==
    << [manager |-> "apt",    commands |-> {"apt", "apt-get"}],
       [manager |-> "dnf",    commands |-> {"dnf"}],
       [manager |-> "yum",    commands |-> {"yum"}],
       [manager |-> "pacman", commands |-> {"pacman"}],
       [manager |-> "zypper", commands |-> {"zypper"}],
       [manager |-> "apk",    commands |-> {"apk"}] >>

\* the for loop of _system_manager_priority over linux_managers[i..]
RECURSIVE LinuxPriorityFrom(_, _)
LinuxPriorityFrom(path, i) ==
    IF i > Len(linux_managers) THEN << "snap", "flatpak" >>
    ELSE IF \E cmd \in linux_managers[i].commands : which(path, cmd)
         THEN << linux_managers[i].manager, "snap", "flatpak" >>
         ELSE LinuxPriorityFrom(path, i + 1)

\* _system_manager_priority()
_system_manager_priority(system, path) ==
    CASE _os_type(system) = "macos" -> << "brew", "snap", "flatpak" >>
      [] _os_type(system) = "windows" -> << "winget", "choco" >>
      [] _os_type(system) = "linux" -> LinuxPriorityFrom(path, 1)
      [] OTHER -> << "snap", "flatpak" >>

\* for manager in order: if installed.get(manager) and manager not in prefs: append
RECURSIVE AppendInstalled(_, _, _)
AppendInstalled(prefs, order, installed) ==
    IF order = <<>> THEN prefs
    ELSE LET manager == Head(order)
         IN  IF manager \in DOMAIN installed /\ installed[manager] /\ manager \notin Range(prefs)
             THEN AppendInstalled(Append(prefs, manager), Tail(order), installed)
             ELSE AppendInstalled(prefs, Tail(order), installed)

\* the managers the heuristics put first (the two ifs that open the function)
HeuristicPrefs(pkg, installed) ==
    (IF _looks_like_python_pkg(pkg) /\ installed["pip"] THEN << "pip" >> ELSE <<>>)
    \o (IF _looks_like_npm_pkg(pkg) /\ installed["npm"] THEN << "npm" >> ELSE <<>>)

\* mutant of _ordered_install_manager_candidates: the system managers are
\* added before the heuristic ones
_ordered_system_first(pkg, installed, system, path) ==
    AppendInstalled(
        AppendInstalled(
            AppendInstalled(<<>>, _system_manager_priority(system, path), installed),
            HeuristicPrefs(pkg, installed), installed),
        MANAGER_INSTALL_HANDLERS, installed)

\* an _ordered_install_manager_candidates without its last loop over the
\* remaining installed managers
_ordered_without_remaining(pkg, installed, system, path) ==
    AppendInstalled(HeuristicPrefs(pkg, installed),
                    _system_manager_priority(system, path), installed)

\* _ordered_install_manager_candidates(pkg, installed); it also reads the host
\* through _system_manager_priority()
_ordered_install_manager_candidates(pkg, installed, system, path) ==
    AppendInstalled(
        AppendInstalled(HeuristicPrefs(pkg, installed),
                        _system_manager_priority(system, path), installed),
        MANAGER_INSTALL_HANDLERS, installed)

(***************************************************************************)
(* State.                                                                  *)
(***************************************************************************)
VARIABLES
    system,      \* platform.system() of the host
    path,        \* the binaries shutil.which resolves at this moment
    op,          \* "install" (install_package) or "remove" (remove_package)
    pkg,         \* the package reference of the call
    preferred,   \* preferred_manager / manager argument, NoManager for None
    pc,          \* position of the call
    installed,   \* local `installed`: the availability map taken at entry
    candidates,  \* local `candidates`
    idx,         \* 1-based position of the loop in candidates
    attempts,    \* local `attempts`: sequence of (manager, RunResult)
    res,         \* the RunResult run_command hands back
    retries,     \* run_command's retries argument
    attempt,     \* run_command's loop variable
    running,     \* managers whose command was started and is still running
    launched,    \* managers whose command was started, in start order
    warned,      \* the message the call printed about the preferred manager
    db,          \* package_db: managers recorded (install) for this package
    ret,         \* the returned pair, NoReturn while the call runs
    prev,        \* availability map and candidates of the previous call
    cmd,         \* the command of the current iteration / of run_command
    shell,       \* run_command's shell argument
    events,      \* what has happened inside the current run_command call
    upc,         \* position inside cross_update / download_file_with_progress
    url,         \* the url argument of cross_update
    expected,    \* the verify_sha256 argument, NoHash for None
    declared,    \* Content-Length of the response in chunks, 0 when absent
    payload,     \* the chunks the server sends
    requests,    \* network requests issued so far
    received,    \* the chunks read and hashed so far
    temp,        \* the file at temp_file, NoFile while it does not exist
    live,        \* the file at current_script (the live executable)
    liveExec,    \* the live executable has its execute bit
    backup,      \* the file at backup_path
    fsops,       \* the filesystem mutations of the update call, in order
    uret,        \* what cross_update has returned: "none", "True" or "False"
    reqfile,     \* the requirements file given to bulk_install_from_file
    lines,       \* the package lines bulk_install_from_file found in it
    lineNo,      \* the position of the line being installed
    results,     \* the results dict bulk_install_from_file builds
    bulkRet,     \* the dict bulk_install_from_file has returned
    exitCode     \* what main has returned, << >> before

vars == << system, path, op, pkg, preferred, pc, installed, candidates, idx,
           attempts, res, retries, attempt, running, launched, warned, db, ret,
           prev, cmd, shell, events, upc, url, expected, declared, payload,
           requests, received, temp, live, liveExec, backup, fsops, uret,
           reqfile, lines, lineNo, results, bulkRet, exitCode >>

\* the state of bulk_install_from_file and of main around it
bulkVars == << reqfile, lines, lineNo, results, bulkRet, exitCode >>

\* the state of the self-update
updVars == << upc, url, expected, declared, payload, requests, received, temp,
              live, liveExec, backup, fsops, uret >>

\* the state of install_package / remove_package / run_command
pkgVars == << path, op, pkg, preferred, pc, installed, candidates, idx, attempts,
              res, retries, attempt, running, launched, warned, db, ret, prev,
              cmd, shell, events >>

\* the state of run_command's frame
runVars == << cmd, shell, events >>

NoManager == "None"
NoReturn == [ok |-> FALSE, attempts |-> <<>>, returned |-> FALSE]
NoResult == [ok |-> FALSE, code |-> 0, set |-> FALSE]
NoPrev == [set |-> FALSE, installed |-> <<>>, candidates |-> <<>>]

\* RunResult(ok, code, out, err); the texts are not modelled
RunResult(ok, code) == [ok |-> ok, code |-> code, set |-> TRUE]

\* exit codes a manager command ends with; Popen.returncode is -1 for a
\* process ended by signal 1
ExitCodes == { 0, 1, -1 }

\* one element of an argv list: a literal of the command template or the
\* package reference
Lit(text) == [kind |-> "lit", lit |-> text, ref |-> <<>>]
Ref(p) == [kind |-> "pkg", lit |-> "", ref |-> p]

\* a command: an argv list (List[str]) or one shell string (str)
Argv(args) == [kind |-> "argv", args |-> args]
ShellString(text) == [kind |-> "str", args |-> << Lit(text) >>]
NoCommand == [kind |-> "none", args |-> <<>>]

\* one thing that happened inside run_command
Event(kind, code) == [kind |-> kind, code |-> code]

\* a path at which no file exists; verify_sha256 = None; the url of a
\* process that is not updating
NoFile == [exists |-> FALSE, data |-> <<>>]
File(data) == [exists |-> TRUE, data |-> data]
NoHash == << >>
NoUrl == [scheme |-> "", host |-> ""]

\* the executable that runs the update
OldExe == File(<< "o" >>)

\* a dict that has not been built or returned yet
NoDict == [pending |-> TRUE]

\* no requirements file is being installed
BulkIdle ==
    /\ reqfile = NoFile
    /\ lines = <<>>
    /\ lineNo = 1
    /\ results = NoDict
    /\ bulkRet = NoDict
    /\ exitCode = << >>

\* no self-update is running
UpdateIdle ==
    /\ upc = "none"
    /\ url = NoUrl
    /\ expected = NoHash
    /\ declared = 0
    /\ payload = <<>>
    /\ requests = 0
    /\ received = <<>>
    /\ temp = NoFile
    /\ live = OldExe
    /\ liveExec = TRUE
    /\ backup = NoFile
    /\ fsops = <<>>
    /\ uret = "none"

(***************************************************************************)
(* Inputs.                                                                 *)
(***************************************************************************)
\* the search paths with at most MaxBinaries binaries
Paths == { p \in SUBSET Binaries : Cardinality(p) <= MaxBinaries }

Stems ==
    { <<"v","i","m">>, <<"P","y">>, <<"n","u","m","p","y">>, <<"V","u","e">>,
      <<"@","a","=">> }
SuffixChars == { "x", "=" }

\* package references: a stem followed by at most MaxSuffixLen characters
PkgRefs == { stem \o suffix : stem \in Stems, suffix \in SeqsUpTo(SuffixChars, MaxSuffixLen) }

\* values of the preferred manager argument
PreferredArgs == { NoManager, "PIP", "snap" }

TypeOK ==
    /\ system \in PlatformSystems
    /\ path \subseteq Binaries
    /\ op \in { "install", "remove", "run", "update", "bulk" }
    /\ upc \in { "none", "urlopen", "open", "read", "verify", "backup", "replace",
                  "chmod", "unlink", "done" }
    /\ uret \in { "none", "True", "False" }
    /\ requests \in 0..1
    /\ Len(received) <= Len(payload)
    /\ pc \in { "idle", "loop", "popen", "started", "record", "dbwrite", "done" }
    /\ retries \in 0..(MaxRetries + 1) /\ attempt \in 0..retries
    /\ cmd.kind \in { "argv", "str", "none" }
    /\ shell \in BOOLEAN
    /\ idx \in 1..(Len(candidates) + 1)
    /\ running \subseteq Managers
    /\ db \subseteq Managers

InitWith(systems, paths, ops, pkgs, prefs) ==
    /\ system \in systems
    /\ path \in paths
    /\ op \in ops
    /\ pkg \in pkgs
    /\ preferred \in prefs
    /\ pc = "idle"
    /\ installed = [ name \in Managers |-> FALSE ]
    /\ candidates = <<>>
    /\ idx = 1
    /\ attempts = <<>>
    /\ res = NoResult
    /\ retries = 0
    /\ attempt = 0
    /\ running = {}
    /\ launched = <<>>
    /\ warned = "none"
    /\ db = {}
    /\ ret = NoReturn
    /\ prev = NoPrev
    /\ cmd = NoCommand
    /\ shell = FALSE
    /\ events = <<>>
    /\ UpdateIdle
    /\ BulkIdle

(***************************************************************************)
(* install_package / remove_package: entry.                                *)
(***************************************************************************)
Return(ok, atts) == [ok |-> ok, attempts |-> atts, returned |-> TRUE]

\* mutant of InstallCandidates: the preferred manager is put last
InstallCandidates_PreferredLast(order, pref, inst) ==
    IF pref # NoManager /\ name_lower(pref) \in Managers /\ inst[name_lower(pref)]
    THEN FilterSeq(order, Managers \ { name_lower(pref) }) \o << name_lower(pref) >>
    ELSE order

\* mutant of InstallCandidates: the availability of the preferred manager is
\* not looked at
InstallCandidates_Unchecked(order, pref, inst) ==
    IF pref # NoManager /\ name_lower(pref) \in Managers
    THEN << name_lower(pref) >> \o FilterSeq(order, Managers \ { name_lower(pref) })
    ELSE order

\* install_package, lines 938-945: the preferred manager moved to the front
InstallCandidates(order, pref, inst) ==
    IF pref # NoManager /\ name_lower(pref) \in Managers /\ inst[name_lower(pref)]
    THEN << name_lower(pref) >> \o FilterSeq(order, Managers \ { name_lower(pref) })
    ELSE order

\* install_package, lines 938-945: the warning about an ignored preference
InstallWarning(pref, inst) ==
    IF pref # NoManager /\ ~(name_lower(pref) \in Managers /\ inst[name_lower(pref)])
    THEN "warning" ELSE "none"

\* remove_package, lines 1007-1012: the manager argument is usable
RemoveManagerUsable(pref, inst) ==
    name_lower(pref) \in MANAGER_REMOVE_HANDLERS /\ inst[name_lower(pref)]

\* mutant of RemoveCandidates: the candidates are not filtered by remove handler
RemoveCandidates_Unfiltered(order, pref, inst) ==
    IF pref # NoManager
    THEN IF RemoveManagerUsable(pref, inst) THEN << name_lower(pref) >> ELSE <<>>
    ELSE order

\* remove_package, lines 1007-1017: the candidates
RemoveCandidates(order, pref, inst) ==
    IF pref # NoManager
    THEN IF RemoveManagerUsable(pref, inst) THEN << name_lower(pref) >> ELSE <<>>
    ELSE FilterSeq(order, MANAGER_REMOVE_HANDLERS)

\* install_package, lines 926-953
InstallEntry ==
    /\ pc = "idle" /\ op = "install"
    /\ \E inst \in { _detect_installed_managers(path) } :
       \E cands \in { InstallCandidates(
                         _ordered_install_manager_candidates(pkg, inst, system, path),
                         preferred, inst) } :
           /\ installed' = inst
           /\ IF ~(\E m \in Managers : inst[m])
              THEN /\ ret' = Return(FALSE, <<>>)
                   /\ pc' = "done"
                   /\ UNCHANGED << candidates, warned >>
              ELSE /\ candidates' = cands
                   /\ warned' = InstallWarning(preferred, inst)
                   /\ IF cands = <<>>
                      THEN ret' = Return(FALSE, <<>>) /\ pc' = "done"
                      ELSE ret' = ret /\ pc' = "loop"
    /\ idx' = 1
    /\ attempts' = <<>>
    /\ UNCHANGED << bulkVars, updVars, runVars, prev, system, path, op, pkg, preferred, res, retries, attempt,
                    running, launched, db >>

\* remove_package, lines 996-1021
RemoveEntry ==
    /\ pc = "idle" /\ op = "remove"
    /\ \E inst \in { _detect_installed_managers(path) } :
       \E cands \in { RemoveCandidates(
                         _ordered_install_manager_candidates(pkg, inst, system, path),
                         preferred, inst) } :
           /\ installed' = inst
           /\ IF ~(\E m \in Managers : inst[m])
              THEN /\ ret' = Return(FALSE, <<>>)
                   /\ pc' = "done"
                   /\ UNCHANGED << candidates, warned >>
              ELSE IF preferred # NoManager /\ ~RemoveManagerUsable(preferred, inst)
              THEN /\ warned' = "error"
                   /\ ret' = Return(FALSE, <<>>)
                   /\ pc' = "done"
                   /\ UNCHANGED candidates
              ELSE /\ candidates' = cands
                   /\ warned' = warned
                   /\ IF cands = <<>>
                      THEN ret' = Return(FALSE, <<>>) /\ pc' = "done"
                      ELSE ret' = ret /\ pc' = "loop"
    /\ idx' = 1
    /\ attempts' = <<>>
    /\ UNCHANGED << bulkVars, updVars, runVars, prev, system, path, op, pkg, preferred, res, retries, attempt,
                    running, launched, db >>

(***************************************************************************)
(* Command builders.                                                       *)
(***************************************************************************)
\* _pip_install / _pip_remove, lines 698-702 / 751-755: the first python
\* command found on the search path, sys.executable otherwise
PythonCommand(binaries) ==
    LET cmds == _get_python_commands(binaries)
        found == { i \in 1..Len(cmds) : which(binaries, cmds[i]) }
    IN  IF found = {} THEN "sys.executable"
        ELSE cmds[CHOOSE i \in found : \A j \in found : i <= j]

\* the literal words of the install command of a manager, before the package
InstallWords(manager, binaries) ==
    CASE manager = "pip" -> << PythonCommand(binaries), "-m", "pip", "install", "--user" >>
      [] manager = "npm" -> << "npm", "install", "-g" >>
      [] manager \in { "apt", "dnf", "yum" } -> << "sudo", manager, "install", "-y" >>
      [] manager = "pacman" -> << "sudo", "pacman", "-S", "--noconfirm" >>
      [] manager = "zypper" -> << "sudo", "zypper", "--non-interactive", "install" >>
      [] manager = "apk" -> << "sudo", "apk", "add" >>
      [] manager = "brew" -> << "brew", "install" >>
      [] manager = "choco" -> << "choco", "install", "-y" >>
      [] manager = "winget" -> << "winget", "install", "--silent",
                                  "--accept-package-agreements",
                                  "--accept-source-agreements" >>
      [] manager = "snap" -> << "sudo", "snap", "install" >>
      [] manager = "flatpak" -> << "flatpak", "install", "-y" >>

\* the literal words of the remove command of a manager, before the package;
\* a manager without a remove builder has none
RemoveWords(manager, binaries) ==
    CASE manager = "pip" -> << PythonCommand(binaries), "-m", "pip", "uninstall", "-y" >>
      [] manager = "npm" -> << "npm", "uninstall", "-g" >>
      [] manager = "brew" -> << "brew", "uninstall" >>
      [] manager \in { "apt", "dnf", "yum" } -> << "sudo", manager, "remove", "-y" >>
      [] manager = "pacman" -> << "sudo", "pacman", "-R", "--noconfirm" >>
      [] manager = "snap" -> << "sudo", "snap", "remove" >>
      [] manager = "flatpak" -> << "flatpak", "uninstall", "-y" >>
      [] OTHER -> << >>

\* a list of literal words as argv elements
Words(ws) == [ i \in 1..Len(ws) |-> Lit(ws[i]) ]

\* the package reference up to its first version-specifier character
BeforeSpecifier(p) ==
    LET at == { i \in 1..Len(p) : p[i] \in { "=", "<", ">", "!" } }
    IN  IF at = {} THEN p
        ELSE SubSeq(p, 1, (CHOOSE i \in at : \A j \in at : i <= j) - 1)

\* a builder that passes the package name without its version specifier
BuildCommand_NameOnly(words, p) == Argv(Words(words) \o << Ref(BeforeSpecifier(p)) >>)

\* every builder returns its literal words followed by the package reference
BuildCommand(words, p) == Argv(Words(words) \o << Ref(p) >>)

\* cmd_builder(pkg) of line 961 / 1029
CommandFor(operation, manager, p, binaries) ==
    IF operation = "install"
    THEN BuildCommand(InstallWords(manager, binaries), p)
    ELSE BuildCommand(RemoveWords(manager, binaries), p)

(***************************************************************************)
(* install_package / remove_package: the loop over the candidates.         *)
(***************************************************************************)
\* the handler table the call looks its command builder up in
Handlers == IF op = "install" THEN Managers ELSE MANAGER_REMOVE_HANDLERS

\* the candidate of the current iteration
Current == candidates[idx]

\* an except clause that swallows the exception without recording it
ExceptClause_Swallow(atts, manager) == atts

\* the except clause of the loop body (lines 988-991 / 1052-1055): the
\* exception becomes a failed attempt and the loop goes on
ExceptClause(atts, manager) == Append(atts, [manager |-> manager, res |-> RunResult(FALSE, -1)])

\* what the loop does once a command has ended with ok = true and the record
\* store write has raised: the raise lands in the except clause of the loop
AfterStoreFailure(atts, manager, i) ==
    [attempts |-> ExceptClause(atts, manager), idx |-> i + 1, pc |-> "loop", ret |-> NoReturn]

\* lines 955-965 / 1023-1032: next candidate, its command is built and
\* run_command(cmd, retries=0, show_progress=True) is entered
NextCandidate ==
    /\ pc = "loop" /\ idx <= Len(candidates)
    /\ IF Current \in Handlers
       THEN /\ pc' = "popen"
            /\ retries' = 0
            /\ attempt' = 0
            /\ idx' = idx
            /\ cmd' = CommandFor(op, Current, pkg, path)
            /\ shell' = FALSE
            /\ events' = <<>>
       ELSE /\ idx' = idx + 1
            /\ UNCHANGED << pc, retries, attempt, runVars >>
    /\ UNCHANGED << bulkVars, updVars, prev, system, path, op, pkg, preferred, installed, candidates,
                    attempts, res, running, launched, warned, db, ret >>

\* lines 961-962 raise (command builder or the progress message): the except
\* clause records a failed attempt
BuildRaises ==
    /\ pc = "loop" /\ idx <= Len(candidates)
    /\ Current \in Handlers
    /\ attempts' = ExceptClause(attempts, Current)
    /\ idx' = idx + 1
    /\ UNCHANGED << bulkVars, updVars, runVars, prev, system, path, op, pkg, preferred, pc, installed, candidates,
                    res, retries, attempt, running, launched, warned, db, ret >>

\* lines 993-994 / 1057-1058: every candidate was tried
ExhaustedFailure ==
    /\ pc = "loop" /\ idx > Len(candidates)
    /\ ret' = Return(FALSE, attempts)
    /\ pc' = "done"
    /\ UNCHANGED << bulkVars, updVars, runVars, prev, system, path, op, pkg, preferred, installed, candidates, idx,
                    attempts, res, retries, attempt, running, launched, warned, db >>

(***************************************************************************)
(* run_command.                                                            *)
(***************************************************************************)
\* line 662: the result of the except clause on the last attempt
ExceptionResult == RunResult(FALSE, -1)

\* line 644: the result of a timeout
TimeoutResult == RunResult(FALSE, -1)

\* the except clause of run_command (lines 660-663): the last attempt returns
\* RunResult(False, -1), an earlier one sleeps and loops
RunExcept ==
    IF attempt = retries
    THEN /\ res' = ExceptionResult
         /\ pc' = "record"
         /\ attempt' = attempt
    ELSE /\ attempt' = attempt + 1
         /\ pc' = "popen"
         /\ res' = res

\* the trace of an exception caught by that clause: time.sleep(1) and the
\* time.sleep(2) of the next attempt (lines 612-614, 663) unless it was the last
Raised(kind) ==
    events' = IF attempt = retries
              THEN Append(events, Event(kind, 0))
              ELSE events \o << Event(kind, 0), Event("sleep", 0) >>

\* lines 616-627: subprocess.Popen starts the command
PopenStarts ==
    /\ pc = "popen"
    /\ running' = running \cup { Current }
    /\ launched' = Append(launched, Current)
    /\ events' = Append(events, Event("started", 0))
    /\ pc' = "started"
    /\ UNCHANGED << bulkVars, updVars, cmd, shell, prev, system, path, op, pkg, preferred, installed, candidates, idx,
                    attempts, res, retries, attempt, warned, db, ret >>

\* lines 616-627 raise (binary vanished, permission denied): no process
PopenRaises ==
    /\ pc = "popen"
    /\ RunExcept
    /\ Raised("launchraised")
    /\ UNCHANGED << bulkVars, updVars, cmd, shell, prev, system, path, op, pkg, preferred, installed, candidates, idx,
                    attempts, retries, running, launched, warned, db, ret >>

\* lines 632-636 raise (the progress thread cannot be started): the except
\* clause of run_command returns, the started process is neither waited for
\* nor killed
ProgressThreadRaises ==
    /\ pc = "started"
    /\ RunExcept
    /\ Raised("threadraised")
    /\ UNCHANGED << bulkVars, updVars, cmd, shell, prev, system, path, op, pkg, preferred, installed, candidates, idx,
                    attempts, retries, running, launched, warned, db, ret >>

\* a run_command that goes to the retry policy after every exit
ProcessExits_RetryAlways ==
    /\ pc = "started"
    /\ \E code \in ExitCodes :
         /\ events' = IF attempt = retries
                       THEN Append(events, Event("exit", code))
                       ELSE events \o << Event("exit", code), Event("sleep", 0) >>
         /\ IF attempt = retries
            THEN res' = RunResult(code = 0, code) /\ pc' = "record" /\ attempt' = attempt
            ELSE res' = res /\ pc' = "popen" /\ attempt' = attempt + 1
    /\ running' = running \ { Current }
    /\ UNCHANGED << bulkVars, updVars, cmd, shell, prev, system, path, op, pkg, preferred, installed, candidates, idx,
                    attempts, retries, launched, warned, db, ret >>

\* lines 640, 646-658: communicate() returns, the process has exited
ProcessExits ==
    /\ pc = "started"
    /\ \E code \in ExitCodes :
         /\ res' = RunResult(code = 0, code)
         /\ events' = Append(events, Event("exit", code))
    /\ running' = running \ { Current }
    /\ pc' = "record"
    /\ UNCHANGED << bulkVars, updVars, cmd, shell, prev, system, path, op, pkg, preferred, installed, candidates, idx,
                    attempts, retries, attempt, launched, warned, db, ret >>

\* lines 641-644: TimeoutExpired, process.kill(), communicate(), return
ProcessTimesOut ==
    /\ pc = "started"
    /\ running' = running \ { Current }
    /\ res' = TimeoutResult
    /\ events' = events \o << Event("timeout", 0), Event("killed", 0) >>
    /\ pc' = "record"
    /\ UNCHANGED << bulkVars, updVars, cmd, shell, prev, system, path, op, pkg, preferred, installed, candidates, idx,
                    attempts, retries, attempt, launched, warned, db, ret >>

\* lines 641-642: TimeoutExpired and process.kill() raises (a sudo command
\* runs as root, the caller may not signal it): the except clause returns,
\* the process keeps running
KillRaises ==
    /\ pc = "started"
    /\ RunExcept
    /\ events' = IF attempt = retries
                 THEN events \o << Event("timeout", 0), Event("killraised", 0) >>
                 ELSE events \o << Event("timeout", 0), Event("killraised", 0),
                                   Event("sleep", 0) >>
    /\ UNCHANGED << bulkVars, updVars, cmd, shell, prev, system, path, op, pkg, preferred, installed, candidates, idx,
                    attempts, retries, running, launched, warned, db, ret >>

\* a process run_command left behind ends by itself
OrphanExits ==
    /\ \E m \in running :
         /\ ~(pc = "started" /\ m = Current)
         /\ running' = running \ { m }
    /\ UNCHANGED << bulkVars, updVars, runVars, prev, system, path, op, pkg, preferred, pc, installed, candidates, idx,
                    attempts, res, retries, attempt, launched, warned, db, ret >>

(***************************************************************************)
(* install_package / remove_package: after run_command.                    *)
(***************************************************************************)
\* lines 966-968, 975-986 / 1033-1035, 1041-1050: the attempt is recorded
RecordAttempt ==
    /\ pc = "record"
    /\ attempts' = Append(attempts, [manager |-> Current, res |-> res])
    /\ IF res.ok
       THEN pc' = "dbwrite" /\ idx' = idx
       ELSE pc' = "loop" /\ idx' = idx + 1
    /\ res' = NoResult
    /\ cmd' = NoCommand
    /\ events' = <<>>
    /\ UNCHANGED << bulkVars, updVars, shell, prev, system, path, op, pkg, preferred, installed, candidates,
                    retries, attempt, running, launched, warned, db, ret >>

\* lines 970-974 / 1037-1040: the record store is updated, the call returns
StoreWritten ==
    /\ pc = "dbwrite"
    /\ db' = IF op = "install" THEN db \cup { Current } ELSE db \ { Current }
    /\ ret' = Return(TRUE, attempts)
    /\ pc' = "done"
    /\ UNCHANGED << bulkVars, updVars, runVars, prev, system, path, op, pkg, preferred, installed, candidates, idx,
                    attempts, res, retries, attempt, running, launched, warned >>

\* line 971 / 1037 raises (sqlite3 error of PackageDB.add_package /
\* remove_package): the raise is caught by the except clause of the loop
StoreRaises ==
    /\ pc = "dbwrite"
    /\ LET after == AfterStoreFailure(attempts, Current, idx)
       IN  /\ attempts' = after.attempts
           /\ idx' = after.idx
           /\ pc' = after.pc
           /\ ret' = IF after.ret.returned THEN after.ret ELSE ret
    /\ UNCHANGED << bulkVars, updVars, runVars, prev, system, path, op, pkg, preferred, installed, candidates,
                    res, retries, attempt, running, launched, warned, db >>

(***************************************************************************)
(* Specifications.                                                         *)
(***************************************************************************)
\* hosts for the walk over the candidates
WalkBinaries == { "sys.executable", "npm", "apt", "apt-get", "zypper", "snap" }
WalkPaths == { p \in SUBSET WalkBinaries : Cardinality(p) <= MaxBinaries }
WalkPkgs == { <<"v","i","m">>, <<"n","u","m","p","y">>, <<"@","s">>, <<"@","a","=","=">> }
WalkPreferred == { NoManager, "SNAP", "zypper", "bogus" }

Init == InitWith({ "Linux", "Windows" }, WalkPaths, { "install", "remove" }, WalkPkgs, WalkPreferred)

Entry == InstallEntry \/ RemoveEntry
Loop == NextCandidate \/ BuildRaises \/ ExhaustedFailure
RunCommand ==
    \/ PopenStarts \/ PopenRaises \/ ProgressThreadRaises \/ ProcessExits
    \/ ProcessTimesOut \/ KillRaises \/ OrphanExits
AfterRun == RecordAttempt \/ StoreWritten \/ StoreRaises

Next == Entry \/ Loop \/ RunCommand \/ AfterRun

Spec == Init /\ [][Next]_vars

\* bulk_install_from_file, lines 1638-1657: the next line of the file names
\* the same package and install_package is called again; the commands of the
\* previous call may have added or removed a binary on the search path
InstallAgain ==
    /\ pc \in { "loop", "done" } /\ op = "install"
    /\ ~prev.set
    /\ prev' = [set |-> TRUE, installed |-> installed, candidates |-> candidates]
    /\ \E b \in Binaries : path' \in { path, path \cup { b }, path \ { b } }
    /\ pc' = "idle"
    /\ candidates' = <<>>
    /\ warned' = "none"
    /\ ret' = NoReturn
    /\ UNCHANGED << bulkVars, updVars, runVars, system, op, pkg, preferred, installed, idx, attempts,
                    res, retries, attempt, running, launched, db >>

\* candidate resolution of one install_package call, over every host, package
\* reference and preferred manager
InitPlan == InitWith(PlatformSystems, Paths, { "install" }, PkgRefs, PreferredArgs)
NextPlan == InstallEntry
SpecPlan == InitPlan /\ [][NextPlan]_vars

\* candidate resolution of two successive install_package calls for the same
\* package reference, no preferred manager
InitDet == InitWith(PlatformSystems, Paths, { "install" }, WalkPkgs, { NoManager })
NextDet == InstallEntry \/ InstallAgain
SpecDet == InitDet /\ [][NextDet]_vars

\* _update_manager, lines 1120-1130: the update commands, an argv list or a
\* shell string
update_commands(manager) ==
    CASE manager = "npm" -> Argv(Words(<< "npm", "update", "-g", "npm" >>))
      [] manager = "apt" -> ShellString("sudo apt update && sudo apt upgrade -y")
      [] manager = "snap" -> Argv(Words(<< "sudo", "snap", "refresh" >>))

RunManagers == { "npm", "apt", "snap" }

\* one call run_command(cmd, retries=n, show_progress=True, shell=isinstance(cmd, str))
\* as _update_manager makes it (line 1138), for every retries argument
InitRun ==
    /\ system = "Linux"
    /\ path = RunManagers
    /\ op = "run"
    /\ pkg = <<>>
    /\ preferred = NoManager
    /\ pc = "popen"
    /\ installed = [ name \in Managers |-> name \in RunManagers ]
    /\ \E m \in RunManagers :
         /\ candidates = << m >>
         /\ cmd = update_commands(m)
         /\ shell = (update_commands(m).kind = "str")
    /\ idx = 1
    /\ attempts = <<>>
    /\ res = NoResult
    /\ retries \in 0..MaxRetries
    /\ attempt = 0
    /\ running = {}
    /\ launched = <<>>
    /\ warned = "none"
    /\ db = {}
    /\ ret = NoReturn
    /\ prev = NoPrev
    /\ events = <<>>
    /\ UpdateIdle
    /\ BulkIdle

NextRun == RunCommand
SpecRun == InitRun /\ [][NextRun]_vars

(***************************************************************************)
(* download_file_with_progress.                                            *)
(***************************************************************************)
\* hashlib.sha256().hexdigest() of the chunks read: distinct contents have
\* distinct digests, in lower-case digits
hexdigest(data) == << "e" >> \o data

\* the number of chunks the response delivers: http.client stops at
\* Content-Length when the header is present
Deliverable ==
    IF declared = 0 \/ declared > Len(payload) THEN Len(payload) ELSE declared

\* the except clause of download_file_with_progress (lines 1225-1229): a
\* partial file is removed, the download returns False and cross_update
\* returns False (lines 1240-1241)
DownloadExcept ==
    /\ temp' = NoFile
    /\ fsops' = IF temp.exists THEN Append(fsops, "unlink temp") ELSE fsops
    /\ uret' = "False"
    /\ upc' = "done"

\* lines 1179-1183: urlopen sends the request and the response arrives
UrlopenAnswers ==
    /\ upc = "urlopen"
    /\ requests' = requests + 1
    /\ upc' = "open"
    /\ UNCHANGED << bulkVars, pkgVars, system, url, expected, declared, payload, received,
                    temp, live, liveExec, backup, fsops, uret >>

\* line 1182 raises (URLError, HTTPError, timeout)
UrlopenRaises ==
    /\ upc = "urlopen"
    /\ requests' = requests + 1
    /\ DownloadExcept
    /\ UNCHANGED << bulkVars, pkgVars, system, url, expected, declared, payload, received,
                    live, liveExec, backup >>

\* lines 1194-1197: the cache directory exists, the destination is opened for
\* writing
OpenDestination ==
    /\ upc = "open"
    /\ temp' = File(<< >>)
    /\ fsops' = Append(fsops, "create temp")
    /\ upc' = "read"
    /\ UNCHANGED << bulkVars, pkgVars, system, url, expected, declared, payload, requests,
                    received, live, liveExec, backup, uret >>

\* line 1197 raises (cache directory not writable, disk full)
OpenDestinationRaises ==
    /\ upc = "open"
    /\ DownloadExcept
    /\ UNCHANGED << bulkVars, pkgVars, system, url, expected, declared, payload, requests,
                    received, live, liveExec, backup >>

\* lines 1199-1206: one chunk is read, written and hashed
ReadChunk ==
    /\ upc = "read"
    /\ Len(received) < Deliverable
    /\ LET chunk == payload[Len(received) + 1]
       IN  /\ received' = Append(received, chunk)
           /\ temp' = File(Append(temp.data, chunk))
    /\ fsops' = Append(fsops, "write temp")
    /\ UNCHANGED << bulkVars, pkgVars, system, upc, url, expected, declared, payload, requests,
                    live, liveExec, backup, uret >>

\* line 1199 or 1203 raises (connection reset, read timeout, disk full)
ReadRaises ==
    /\ upc = "read"
    /\ DownloadExcept
    /\ UNCHANGED << bulkVars, pkgVars, system, url, expected, declared, payload, requests,
                    received, live, liveExec, backup >>

\* lines 1200-1201: read returns no data after the last chunk
ReadEnds ==
    /\ upc = "read"
    /\ Len(received) = Deliverable
    /\ upc' = "verify"
    /\ UNCHANGED << bulkVars, pkgVars, system, url, expected, declared, payload, requests,
                    received, temp, live, liveExec, backup, fsops, uret >>

\* lines 1200-1201: the connection is closed before the last chunk; read(n)
\* returns no data and the loop ends as after the last chunk
ReadTruncated ==
    /\ upc = "read"
    /\ Len(received) < Deliverable
    /\ upc' = "verify"
    /\ UNCHANGED << bulkVars, pkgVars, system, url, expected, declared, payload, requests,
                    received, temp, live, liveExec, backup, fsops, uret >>

\* a verification that accepts every payload
HashMismatch_Never(expectedHash, data) == FALSE

\* lines 1211-1213: the digests differ, compared in lower case
HashMismatch(expectedHash, data) ==
    /\ expectedHash # NoHash
    /\ str_lower(hexdigest(data)) # str_lower(expectedHash)

\* lines 1210-1223: the hash is verified when one was given; on a mismatch
\* the file is removed and the download returns False
VerifyHash ==
    /\ upc = "verify"
    /\ IF HashMismatch(expected, received)
       THEN /\ temp' = NoFile
            /\ fsops' = Append(fsops, "unlink temp")
            /\ uret' = "False"
            /\ upc' = "done"
       ELSE /\ upc' = "backup"
            /\ UNCHANGED << temp, fsops, uret >>
    /\ UNCHANGED << bulkVars, pkgVars, system, url, expected, declared, payload, requests,
                    received, live, liveExec, backup >>

(***************************************************************************)
(* cross_update, after the download.                                       *)
(***************************************************************************)
\* the except clause of cross_update (lines 1265-1267)
UpdateExcept ==
    /\ uret' = "False"
    /\ upc' = "done"

\* lines 1247-1250: the current script is copied to the backup path
CreateBackup ==
    /\ upc = "backup"
    /\ IF live.exists
       THEN backup' = live /\ fsops' = Append(fsops, "write backup")
       ELSE UNCHANGED << backup, fsops >>
    /\ upc' = "replace"
    /\ UNCHANGED << bulkVars, pkgVars, system, url, expected, declared, payload, requests,
                    received, temp, live, liveExec, uret >>

\* line 1249 raises (directory not writable: nothing written; disk full: an
\* empty backup file is left)
CreateBackupRaises ==
    /\ upc = "backup"
    /\ live.exists
    /\ \/ UNCHANGED << backup, fsops >>
       \/ backup' = File(<< >>) /\ fsops' = Append(fsops, "write backup")
    /\ UpdateExcept
    /\ UNCHANGED << bulkVars, pkgVars, system, url, expected, declared, payload, requests,
                    received, temp, live, liveExec >>

\* line 1253: shutil.copy2 writes the downloaded file over the current
\* script, with the mode of the downloaded file
ReplaceScript ==
    /\ upc = "replace"
    /\ live' = File(temp.data)
    /\ liveExec' = FALSE
    /\ fsops' = Append(fsops, "write live")
    /\ upc' = IF system = "Windows" THEN "unlink" ELSE "chmod"
    /\ UNCHANGED << bulkVars, pkgVars, system, url, expected, declared, payload, requests,
                    received, temp, backup, uret >>

\* line 1253 raises: before the script is opened (nothing written) or after
\* it was truncated and some of the data was copied
ReplaceScriptRaises ==
    /\ upc = "replace"
    /\ \/ UNCHANGED << live, fsops >>
       \/ \E n \in 0..Len(temp.data) :
            /\ live' = File(SubSeq(temp.data, 1, n))
            /\ fsops' = Append(fsops, "write live")
    /\ UpdateExcept
    /\ UNCHANGED << bulkVars, pkgVars, system, url, expected, declared, payload, requests,
                    received, temp, liveExec, backup >>

\* lines 1256-1257: the execute bit is set, except on Windows
MakeExecutable ==
    /\ upc = "chmod"
    /\ liveExec' = TRUE
    /\ fsops' = Append(fsops, "chmod live")
    /\ upc' = "unlink"
    /\ UNCHANGED << bulkVars, pkgVars, system, url, expected, declared, payload, requests,
                    received, temp, live, backup, uret >>

\* line 1257 raises
MakeExecutableRaises ==
    /\ upc = "chmod"
    /\ UpdateExcept
    /\ UNCHANGED << bulkVars, pkgVars, system, url, expected, declared, payload, requests,
                    received, temp, live, liveExec, backup, fsops >>

\* lines 1260-1264: the downloaded file is removed, cross_update returns True
RemoveDownloaded ==
    /\ upc = "unlink"
    /\ temp' = NoFile
    /\ fsops' = Append(fsops, "unlink temp")
    /\ uret' = "True"
    /\ upc' = "done"
    /\ UNCHANGED << bulkVars, pkgVars, system, url, expected, declared, payload, requests,
                    received, live, liveExec, backup >>

\* line 1260 raises (the file is held open by another process)
RemoveDownloadedRaises ==
    /\ upc = "unlink"
    /\ UpdateExcept
    /\ UNCHANGED << bulkVars, pkgVars, system, url, expected, declared, payload, requests,
                    received, temp, live, liveExec, backup, fsops >>

\* the host of DEFAULT_UPDATE_URL, the one official host the program names
OfficialHosts == { "raw.githubusercontent.com" }

\* the hosts of the urls cross_update is called with
UpdateHosts == OfficialHosts \cup { "evil.example.com" }

\* the chunks a server sends
Chunks == { "a", "b" }

\* the release the caller expects, and its digest as the caller may write it
Release == << "a" >>
ExpectedHashes == { NoHash, hexdigest(Release), << "E" >> \o Release }

\* main, lines 1905-1907: cross_update(url, verify_sha256=args.sha256) for
\* every url host, expected hash and response of the server
InitUpdate ==
    /\ system \in { "Linux", "Windows" }
    /\ path = {}
    /\ op = "update"
    /\ pkg = <<>>
    /\ preferred = NoManager
    /\ pc = "idle"
    /\ installed = [ name \in Managers |-> FALSE ]
    /\ candidates = <<>>
    /\ idx = 1
    /\ attempts = <<>>
    /\ res = NoResult
    /\ retries = 0
    /\ attempt = 0
    /\ running = {}
    /\ launched = <<>>
    /\ warned = "none"
    /\ db = {}
    /\ ret = NoReturn
    /\ prev = NoPrev
    /\ cmd = NoCommand
    /\ shell = FALSE
    /\ events = <<>>
    /\ upc = "urlopen"
    /\ \E h \in UpdateHosts : url = [scheme |-> "https", host |-> h]
    /\ expected \in ExpectedHashes
    /\ declared \in 0..(MaxChunks + 1)
    /\ payload \in SeqsUpTo(Chunks, MaxChunks)
    /\ requests = 0
    /\ received = <<>>
    /\ temp = NoFile
    /\ live = OldExe
    /\ liveExec = TRUE
    /\ backup = NoFile
    /\ fsops = <<>>
    /\ uret = "none"
    /\ BulkIdle

Download ==
    \/ UrlopenAnswers \/ UrlopenRaises \/ OpenDestination \/ OpenDestinationRaises
    \/ ReadChunk \/ ReadRaises \/ ReadEnds \/ ReadTruncated \/ VerifyHash
Install ==
    \/ CreateBackup \/ CreateBackupRaises \/ ReplaceScript \/ ReplaceScriptRaises
    \/ MakeExecutable \/ MakeExecutableRaises \/ RemoveDownloaded
    \/ RemoveDownloadedRaises

NextUpdate == Download \/ Install
SpecUpdate == InitUpdate /\ [][NextUpdate]_vars

(***************************************************************************)
(* bulk_install_from_file and main --install-from.                         *)
(***************************************************************************)
\* dict.get(key, default)
DictGet(d, key, default) == IF key \in DOMAIN d THEN d[key] ELSE default

\* lines 1620-1621: the lines that are not empty and do not start with '#'
\* (the lines of the files drawn here carry no surrounding whitespace, so
\* line.strip() is the line itself)
RECURSIVE PackageLines(_)
PackageLines(content) ==
    IF content = <<>> THEN <<>>
    ELSE LET line == Head(content)
         IN  IF line # <<>> /\ ~str_startswith(line, << "#" >>)
             THEN << line >> \o PackageLines(Tail(content))
             ELSE PackageLines(Tail(content))

\* lines 1614-1634: the file is read; a missing file or a file without
\* package lines returns an error dict, otherwise the results dict is set up
ReadRequirements ==
    /\ op = "bulk" /\ results = NoDict /\ bulkRet = NoDict
    /\ IF ~reqfile.exists
       THEN /\ bulkRet' = [success |-> FALSE, error |-> "File not found"]
            /\ UNCHANGED << lines, results >>
       ELSE IF PackageLines(reqfile.data) = <<>>
       THEN /\ bulkRet' = [success |-> FALSE, error |-> "No packages found"]
            /\ UNCHANGED << lines, results >>
       ELSE /\ lines' = PackageLines(reqfile.data)
            /\ results' = [total_packages |-> Len(PackageLines(reqfile.data)),
                            successful |-> 0, failed |-> 0, results |-> << >>]
            /\ UNCHANGED bulkRet
    /\ UNCHANGED << updVars, pkgVars, system, reqfile, lineNo, exitCode >>

\* lines 1638-1643: install_package(line) is called for the next line
InstallLine ==
    /\ op = "bulk" /\ results # NoDict /\ bulkRet = NoDict
    /\ lineNo <= Len(lines)
    /\ op' = "install"
    /\ pkg' = lines[lineNo]
    /\ preferred' = NoManager
    /\ pc' = "idle"
    /\ candidates' = <<>>
    /\ idx' = 1
    /\ attempts' = <<>>
    /\ launched' = <<>>
    /\ warned' = "none"
    /\ ret' = NoReturn
    /\ UNCHANGED << updVars, bulkVars, system, path, installed, res, retries, attempt,
                    running, db, prev, cmd, shell, events >>

\* lines 1643-1657: the outcome of the line is added to the results dict
RecordLine ==
    /\ op = "install" /\ pc = "done" /\ results # NoDict /\ bulkRet = NoDict
    /\ results' = [ results EXCEPT
                      !.results = Append(@, [package |-> pkg, success |-> ret.ok,
                                             attempts |-> Len(ret.attempts)]),
                      !.successful = IF ret.ok THEN @ + 1 ELSE @,
                      !.failed = IF ret.ok THEN @ ELSE @ + 1 ]
    /\ lineNo' = lineNo + 1
    /\ op' = "bulk"
    /\ UNCHANGED << updVars, system, path, pkg, preferred, pc, installed, candidates, idx,
                    attempts, res, retries, attempt, running, launched, warned, db,
                    ret, prev, cmd, shell, events, reqfile, lines, bulkRet, exitCode >>

\* lines 1659-1666: after the last line the results dict is returned
ReturnResults ==
    /\ op = "bulk" /\ results # NoDict /\ bulkRet = NoDict
    /\ lineNo > Len(lines)
    /\ bulkRet' = results
    /\ UNCHANGED << updVars, pkgVars, system, reqfile, lines, lineNo, results, exitCode >>

\* main, lines 2053-2057: the exit code of --install-from
MainReturns ==
    /\ bulkRet # NoDict /\ exitCode = << >>
    /\ exitCode' = << IF DictGet(bulkRet, "success", FALSE) THEN 0 ELSE 1 >>
    /\ UNCHANGED << updVars, pkgVars, system, reqfile, lines, lineNo, results, bulkRet >>

\* the hosts and the lines of the requirements files
BulkPaths == { {}, { "npm" }, { "npm", "snap" } }
BulkLines == { << "v", "i", "m" >>, << "@", "s", "=", "=" >>, << "#" >> }

\* main, lines 2053-2054: bulk_install_from_file(args.install_from) for a
\* missing file and for every file of at most MaxLines lines
InitBulk ==
    /\ system = "Linux"
    /\ path \in BulkPaths
    /\ op = "bulk"
    /\ pkg = <<>>
    /\ preferred = NoManager
    /\ pc = "idle"
    /\ installed = [ name \in Managers |-> FALSE ]
    /\ candidates = <<>>
    /\ idx = 1
    /\ attempts = <<>>
    /\ res = NoResult
    /\ retries = 0
    /\ attempt = 0
    /\ running = {}
    /\ launched = <<>>
    /\ warned = "none"
    /\ db = {}
    /\ ret = NoReturn
    /\ prev = NoPrev
    /\ cmd = NoCommand
    /\ shell = FALSE
    /\ events = <<>>
    /\ UpdateIdle
    /\ reqfile \in { NoFile } \cup { File(c) : c \in SeqsUpTo(BulkLines, MaxLines) }
    /\ lines = <<>>
    /\ lineNo = 1
    /\ results = NoDict
    /\ bulkRet = NoDict
    /\ exitCode = << >>

Bulk == ReadRequirements \/ InstallLine \/ RecordLine \/ ReturnResults \/ MainReturns

NextBulk == Bulk \/ InstallEntry \/ Loop \/ RunCommand \/ AfterRun
SpecBulk == InitBulk /\ [][NextBulk]_vars

(***************************************************************************)
(* Properties.                                                             *)
(***************************************************************************)
\* positions of the attempts whose RunResult has ok = true
OkAttempts == { i \in 1..Len(attempts) : attempts[i].res.ok }

\* the preferred manager names a registered manager and it is available
PreferredAvailable ==
    /\ preferred # NoManager
    /\ name_lower(preferred) \in Managers
    /\ installed[name_lower(preferred)]

\* the order _ordered_install_manager_candidates gives the call
ResolvedOrder == _ordered_install_manager_candidates(pkg, installed, system, path)

\* C1: in one install_package / remove_package call at most one command ends
\* with ok = true, and once a command has ended with ok = true no command of a
\* later candidate is started, whatever the record store write does.
C1_AtMostOneSuccess ==
    /\ Cardinality(OkAttempts) <= 1
    /\ \A i \in OkAttempts : launched[Len(launched)] = attempts[i].manager

\* C2: the returned attempts list is as long as the 1-based position of the
\* first candidate whose command succeeded, with the flag True, or as long as
\* the candidate list when no command succeeded, with the flag False.
C2_AttemptsLength ==
    (ret.returned /\ candidates # <<>>) =>
        LET okPos == { p \in 1..Len(candidates) :
                         \E i \in 1..Len(ret.attempts) :
                            /\ ret.attempts[i].manager = candidates[p]
                            /\ ret.attempts[i].res.ok }
        IN  IF okPos # {}
            THEN /\ ret.ok
                 /\ Len(ret.attempts) = CHOOSE p \in okPos : \A q \in okPos : p <= q
            ELSE /\ ~ret.ok
                 /\ Len(ret.attempts) = Len(candidates)

\* C3: at every moment at most one command started by the call is running.
C3_OneCommandAtATime == Cardinality(running) <= 1

\* C4: an available, registered preferred manager is the first candidate of
\* install_package, whatever the heuristics select.
C4_PreferredFirst ==
    (op = "install" /\ pc # "idle" /\ PreferredAvailable) =>
        /\ pc = "loop"
        /\ candidates # <<>>
        /\ candidates[1] = name_lower(preferred)

\* C4 witness: the preferred manager leads although a heuristic selects pip
C4_Witness ==
    /\ op = "install" /\ pc = "loop" /\ preferred = "snap" /\ PreferredAvailable
    /\ _looks_like_python_pkg(pkg) /\ installed["pip"]
    /\ candidates[1] = "snap" /\ candidates[2] = "pip"

\* C5: an unknown or unavailable preferred manager is ignored by
\* install_package with a warning: the candidates are those of a call with no
\* preferred manager, and the call goes on to try them.
C5_UnavailablePreferredIgnored ==
    (op = "install" /\ pc # "idle" /\ preferred # NoManager /\ ~PreferredAvailable
       /\ \E m \in Managers : installed[m]) =>
        /\ warned = "warning"
        /\ candidates = ResolvedOrder
        /\ candidates # <<>>
        /\ (ret.returned => Len(ret.attempts) >= 1)

\* C5 witness: the call succeeds through another manager
C5_Witness ==
    /\ op = "install" /\ preferred = "bogus" /\ warned = "warning"
    /\ ret.returned /\ ret.ok /\ Len(ret.attempts) = 2

\* C6: an unavailable preferred manager is ignored by remove_package with a
\* warning: the call falls back to the available managers that support
\* removal, in the order of a call with no preferred manager.
C6_RemoveFallsBack ==
    (op = "remove" /\ pc # "idle" /\ preferred # NoManager /\ ~PreferredAvailable
       /\ \E m \in MANAGER_REMOVE_HANDLERS : installed[m]) =>
        /\ warned # "error"
        /\ candidates = FilterSeq(ResolvedOrder, MANAGER_REMOVE_HANDLERS)

\* the managers a heuristic selects: pip for a Python-shaped reference, npm
\* for an npm-shaped one, when available
HeuristicSelected ==
    { m \in { "pip", "npm" } :
        /\ installed[m]
        /\ (m = "pip" => _looks_like_python_pkg(pkg))
        /\ (m = "npm" => _looks_like_npm_pkg(pkg)) }

\* C7: with no preferred manager every heuristic-selected manager precedes
\* every OS-native manager and every universal fallback in the order.
C7_HeuristicFirst ==
    (op = "install" /\ pc # "idle" /\ preferred = NoManager) =>
        \A h \in HeuristicSelected :
            /\ h \in Range(candidates)
            /\ \A m \in Range(candidates) \cap (OsNativeManagers \cup UniversalFallbacks) :
                   IndexOf(candidates, h) < IndexOf(candidates, m)

\* C7 witness: pip, selected for a Python-shaped reference, leads the native
\* manager and the fallback
C7_Witness ==
    /\ op = "install" /\ pc = "loop" /\ preferred = NoManager
    /\ system = "Linux"
    /\ candidates = << "pip", "apt", "snap" >>

\* the OS-native managers of a Linux host
LinuxNative == { linux_managers[i].manager : i \in 1..Len(linux_managers) }

\* C8: on Linux with no preferred manager, when an OS-native manager is
\* available an OS-native manager precedes snap and flatpak in the order.
C8_NativeBeforeFallback ==
    (op = "install" /\ pc # "idle" /\ preferred = NoManager /\ system = "Linux"
       /\ \E n \in LinuxNative : installed[n]) =>
        \A u \in Range(candidates) \cap UniversalFallbacks :
            \E n \in Range(candidates) \cap LinuxNative :
                IndexOf(candidates, n) < IndexOf(candidates, u)

\* C9: two resolutions with the same package reference and the same
\* availability map give the same ordered list.
C9_Deterministic ==
    (prev.set /\ pc # "idle" /\ installed = prev.installed) =>
        candidates = prev.candidates

\* the (False, []) return with nothing run
ImmediateFailure ==
    /\ pc = "done"
    /\ ret = Return(FALSE, <<>>)
    /\ launched = <<>>
    /\ attempts = <<>>

\* C10: with no manager available (install) or no available manager that
\* supports removal (remove) the call returns (False, []) at once and no
\* command is run.
C10_NoManagerNoCommand ==
    /\ (op = "install" /\ pc # "idle" /\ ~(\E m \in Managers : installed[m]))
          => ImmediateFailure
    /\ (op = "remove" /\ pc # "idle" /\ ~(\E m \in MANAGER_REMOVE_HANDLERS : installed[m]))
          => ImmediateFailure

\* C10 witness: remove_package on a host whose only manager has no remove
\* handler
C10_Witness ==
    /\ op = "remove" /\ preferred = NoManager
    /\ installed["zypper"]
    /\ ~(\E m \in MANAGER_REMOVE_HANDLERS : installed[m])
    /\ ImmediateFailure

\* the managers that have an install handler and no remove handler
NoRemoveHandler == { "zypper", "apk", "choco", "winget" }

\* the managers remove_package has built a command for or recorded so far
RemoveTouched ==
    Range(launched)
      \cup { attempts[i].manager : i \in 1..Len(attempts) }
      \cup (IF pc \in { "popen", "started", "record", "dbwrite" } THEN { Current } ELSE {})

\* C11: remove_package never runs a command for, and never records an
\* attempt for, zypper, apk, choco or winget, whether the manager is merely
\* available or is named as the preferred manager.
C11_NoRemoveWithoutHandler ==
    op = "remove" => RemoveTouched \cap NoRemoveHandler = {}

\* C11 witness: remove_package has returned after trying every candidate on
\* a host where zypper is available
C11_Witness ==
    /\ op = "remove" /\ pc = "done"
    /\ installed["zypper"]
    /\ Len(attempts) >= 1 /\ launched # <<>>
    /\ ret.returned /\ ~ret.ok

\* the failed attempt an exception is turned into
FailedAttempt(manager) == [manager |-> manager, res |-> RunResult(FALSE, -1)]

\* the event kinds of an exception caught inside run_command
RaisedKinds == { "launchraised", "threadraised", "killraised" }

\* a step in which the loop body's try is left by an exception: the builder or
\* its message raised, or the record store raised
LoopBodyRaised ==
    /\ pc \in { "loop", "dbwrite" } /\ idx <= Len(candidates)
    /\ Current \in Handlers
    /\ idx' = idx + 1

\* a step in which run_command's last attempt is left by an exception
RunRaisedLast ==
    /\ pc \in { "popen", "started" } /\ pc' = "record"
    /\ events' # <<>> /\ events'[Len(events')].kind \in RaisedKinds

EventsOf(kind) == { i \in 1..Len(events) : events[i].kind = kind }

\* run_command has returned (its result is in res)
RunReturned == pc = "record" /\ res.set

\* the executions that ended with a nonzero exit code
NonzeroExits == { i \in EventsOf("exit") : events[i].code # 0 }

\* nothing but launches, exits and the sleeps between attempts has happened
OnlyExits == \A i \in 1..Len(events) : events[i].kind \in { "started", "exit", "sleep" }

\* C13: run_command with retries = n runs a command that exits nonzero every
\* time n + 1 times; a command that exits nonzero k <= n times and then zero
\* gives ok = true after k + 1 executions.
C13_RetryOnNonzeroExit ==
    (RunReturned /\ OnlyExits) =>
        IF res.ok
        THEN /\ Cardinality(NonzeroExits) <= retries
             /\ Cardinality(EventsOf("started")) = Cardinality(NonzeroExits) + 1
        ELSE /\ Cardinality(NonzeroExits) = retries + 1
             /\ Cardinality(EventsOf("started")) = retries + 1

\* every launch so far has raised
EveryLaunchRaised ==
    \A i \in 1..Len(events) : events[i].kind \in { "launchraised", "sleep" }

\* the result of the execution whose launch is the event at position i: its
\* exit code, or the timeout result once it was killed
ResultOfExecution(i) ==
    IF i + 1 > Len(events) THEN NoResult
    ELSE IF events[i + 1].kind = "exit"
         THEN RunResult(events[i + 1].code = 0, events[i + 1].code)
    ELSE IF events[i + 1].kind = "timeout" /\ i + 2 <= Len(events)
            /\ events[i + 2].kind = "killed"
         THEN TimeoutResult
    ELSE NoResult

\* C14: run_command with retries = n whose launch raises every time attempts
\* the launch exactly n + 1 times and returns RunResult(ok = false); once a
\* launch succeeds, the result of that execution is what is returned.
C14_LaunchRetried ==
    /\ EveryLaunchRaised =>
          /\ Cardinality(EventsOf("launchraised")) <= retries + 1
          /\ RunReturned <=> Cardinality(EventsOf("launchraised")) = retries + 1
          /\ RunReturned => ~res.ok
    /\ RunReturned =>
          \A i \in EventsOf("started") : res = ResultOfExecution(i)

\* C14 without the executions whose progress thread or kill() raised
C14_LaunchRetried_NoRaiseAfterLaunch ==
    (EventsOf("threadraised") \cup EventsOf("killraised") = {}) => C14_LaunchRetried

\* an execution has exited with code 0
ExitedZero == \E i \in EventsOf("exit") : events[i].code = 0

TimedOutLast ==
    /\ Len(events) >= 2
    /\ events[Len(events) - 1].kind = "timeout"
    /\ events[Len(events)].kind = "killed"

\* the codes of the outcomes that are not a timeout: the exit codes of a
\* process and the code of the launch-exception result
NonTimeoutCodes == ExitCodes \cup { ExceptionResult.code }

\* C16: on timeout run_command kills the process and returns ok = false
\* with a code that no outcome other than a timeout has.
C16_TimeoutSentinel ==
    /\ \A i \in EventsOf("timeout") :
          i + 1 <= Len(events) /\ events[i + 1].kind = "killed"
    /\ (RunReturned /\ TimedOutLast) =>
          /\ Current \notin running
          /\ ~res.ok
          /\ res.code \notin NonTimeoutCodes

\* the part of C16 the code keeps: a timed-out process that was killed is
\* gone and the result has ok = false
C16_TimeoutKillsAndFails ==
    (RunReturned /\ TimedOutLast) => (~res.ok /\ res = TimeoutResult)

\* positions of the argv elements that carry the package reference
PackageElements == { i \in 1..Len(cmd.args) : cmd.args[i].kind = "pkg" }

\* C17: the install and remove commands are argv lists run without a shell,
\* and the package reference is exactly one argv element, unmodified.
C17_PackageIsOneArgvElement ==
    (op \in { "install", "remove" } /\ pc \in { "popen", "started" }) =>
        /\ cmd.kind = "argv"
        /\ ~shell
        /\ Cardinality(PackageElements) = 1
        /\ \A i \in PackageElements : cmd.args[i].ref = pkg
        /\ cmd.args[1].kind = "lit"

\* C17 witness: the command of a package reference with a version specifier
\* has been started
C17_Witness ==
    /\ op = "install" /\ pc = "started"
    /\ pkg = << "@", "a", "=", "=" >>
    /\ cmd.args[Len(cmd.args)] = Ref(pkg)

\* the update call has changed nothing on the filesystem
FilesUntouched ==
    /\ fsops = <<>>
    /\ temp = NoFile
    /\ live = OldExe /\ liveExec
    /\ backup = NoFile

\* C18: cross_update with a url whose host is not an official host fails
\* before any network request and before any file is created or modified.
C18_UntrustedHostRejected ==
    (op = "update" /\ url.host \notin OfficialHosts) =>
        /\ requests = 0
        /\ received = <<>>
        /\ FilesUntouched
        /\ upc = "done" => uret = "False"

\* the size caps a caller can configure, in chunks
SizeCaps == 1..MaxChunks

\* C19: a download whose declared Content-Length exceeds the size cap is
\* rejected before any payload byte is fetched, a download whose observed
\* size exceeds the cap is aborted; the update fails and the live executable
\* is unchanged.
C19_SizeCapEnforced ==
    op = "update" =>
        \A cap \in SizeCaps :
            /\ declared > cap =>
                  /\ received = <<>>
                  /\ live = OldExe
                  /\ upc = "done" => uret = "False"
            /\ Len(received) > cap =>
                  /\ Len(received) = cap + 1
                  /\ upc \in { "read", "done" }
                  /\ live = OldExe
                  /\ upc = "done" => uret = "False"

\* an expected hash was given and the SHA-256 of what was downloaded is
\* another one
PayloadDiffers ==
    /\ expected # NoHash
    /\ str_lower(hexdigest(received)) # str_lower(expected)

\* the download is over
Downloaded == upc \in { "backup", "replace", "chmod", "unlink", "done" }

\* C20: when an expected SHA-256 is given and the downloaded payload has
\* another one, cross_update returns False and the live executable is what
\* it was: no backup is taken and no replacement is written.
C20_HashMismatchLeavesLive ==
    (op = "update" /\ Downloaded /\ PayloadDiffers) =>
        /\ upc = "done" /\ uret = "False"
        /\ live = OldExe /\ liveExec
        /\ backup = NoFile
        /\ \A i \in 1..Len(fsops) : fsops[i] \in { "create temp", "write temp", "unlink temp" }

\* C20 witness: a complete download of a payload other than the release,
\* with the release's hash expected, has been verified and refused
C20_Witness ==
    /\ op = "update" /\ upc = "done" /\ uret = "False"
    /\ PayloadDiffers
    /\ received = payload /\ Len(payload) = MaxChunks
    /\ declared = Len(payload)
    /\ fsops[Len(fsops)] = "unlink temp"
    /\ live = OldExe

\* C21: the SHA-256 check comes before any filesystem mutation: on a hash
\* mismatch the update call has created, written or deleted no file at any
\* point of the call.
C21_HashCheckBeforeMutation ==
    (op = "update" /\ upc = "verify" /\ PayloadDiffers) => fsops = <<>>

\* the last filesystem mutation of the update call
LastFsop == IF fsops = <<>> THEN "none" ELSE fsops[Len(fsops)]

\* cross_update has ended because the step that writes the new payload over
\* the live executable, or the step that sets its mode, raised after the
\* backup was created (on Windows a raise of the last step, the removal of
\* the downloaded file, leaves the same mark and is left out)
ReplaceStepRaised ==
    /\ op = "update" /\ upc = "done" /\ uret = "False"
    /\ temp.exists /\ backup = OldExe
    /\ \/ LastFsop = "write backup"
       \/ LastFsop = "write live" /\ system # "Windows"

\* C22: when the write of the new payload over the live executable, or the
\* setting of its mode, raises after the backup was created, the live
\* executable is restored from the backup and failure is reported.
C22_RollbackOnReplaceFailure ==
    ReplaceStepRaised => (live = OldExe /\ liveExec)

\* the two end states of an update
Updated == uret = "True" /\ live = File(received) /\ backup = OldExe
RolledBack == uret = "False" /\ live = OldExe

\* C23: every run of cross_update that ends, ends either Updated (True, new
\* payload live, backup retained) or untouched / rolled back (False, the old
\* executable live); never with a partly written live executable, never with
\* the new payload live and False returned.
C23_UpdatedOrRolledBack ==
    (op = "update" /\ upc = "done") => (Updated \/ RolledBack)

\* the backup copy could not be created: the download is there, the backup
\* path does not hold the old executable
BackupFailed ==
    /\ op = "update" /\ temp.exists
    /\ upc \notin { "urlopen", "open", "read", "verify", "backup" }
    /\ backup # OldExe

\* C24: a failure to create the backup is not fatal: the update goes on to
\* write the new payload.
C24_BackupFailureNotFatal ==
    (BackupFailed /\ upc = "done") =>
        \E i \in 1..Len(fsops) : fsops[i] = "write live"

\* the server had more to send than was received
Interrupted == Len(received) < Deliverable

\* C27: the live executable is written only after the download has
\* completed in full and, with an expected hash, was verified: an
\* interrupted download never puts partial data into the live executable,
\* and once the download has returned False no file is left at its
\* destination.
C27_LiveWrittenAfterFullDownload ==
    [][ op = "update" =>
          /\ live' # live => (~Interrupted /\ ~PayloadDiffers /\ upc = "replace")
          /\ (upc \in { "urlopen", "open", "read", "verify" } /\ upc' = "done")
                => (uret' = "False" /\ ~temp'.exists)
      ]_vars

\* the part of C27 the code keeps: the live executable is written only once
\* download_file_with_progress has returned True, and a download that has
\* returned False leaves no file at its destination
C27_LiveWrittenAfterDownloadReturns ==
    [][ op = "update" =>
          /\ live' # live => (~PayloadDiffers /\ upc = "replace")
          /\ (upc \in { "urlopen", "open", "read", "verify" } /\ upc' = "done")
                => (uret' = "False" /\ ~temp'.exists)
      ]_vars

\* C25: manager availability is memoized for the process lifetime: a later
\* availability query gives for every manager the value of the first probe,
\* even if the binaries on the search path have changed in between.
C25_AvailabilityMemoized ==
    (prev.set /\ pc # "idle") =>
        \A m \in Managers : installed[m] = prev.installed[m]

\* the managers of the attempts, in order
AttemptManagers == [ i \in 1..Len(attempts) |-> attempts[i].manager ]

\* s is a prefix of t
IsPrefix(s, t) == Len(s) <= Len(t) /\ s = SubSeq(t, 1, Len(s))

\* C26: the attempts list is append-only, its managers are a prefix of the
\* candidate order in execution order, and no manager appears twice.
C26_AttemptsPrefixOfCandidates ==
    [][ (op \in { "install", "remove" } /\ pc # "idle") =>
          /\ IsPrefix(attempts, attempts')
          /\ IsPrefix(AttemptManagers', candidates')
      ]_vars

\* C29: the returned success flag is True exactly when the returned list
\* holds an attempt with ok = true, and that attempt is then the last one.
C29_FlagAgreesWithAttempts ==
    (op \in { "install", "remove" } /\ ret.returned) =>
        /\ ret.ok <=> (\E i \in 1..Len(ret.attempts) : ret.attempts[i].res.ok)
        /\ \A i \in 1..Len(ret.attempts) :
              ret.attempts[i].res.ok => i = Len(ret.attempts)

\* C26 over the steps other than the one in which the record store raises
C26_AttemptsPrefix_NoStoreFailure ==
    [][ (op \in { "install", "remove" } /\ pc \notin { "idle", "dbwrite" }
           /\ IsPrefix(AttemptManagers, candidates)) =>
          /\ IsPrefix(attempts, attempts')
          /\ IsPrefix(AttemptManagers', candidates')
      ]_vars

\* C29 over the calls in which the record store has not raised after a
\* successful command
C29_FlagAgrees_NoStoreFailure ==
    (op \in { "install", "remove" } /\ ret.returned
       /\ \A i \in OkAttempts : i = Len(attempts)) =>
        (ret.ok <=> (\E i \in 1..Len(ret.attempts) : ret.attempts[i].res.ok))

\* the managers the availability map reports available
AvailableManagers == { m \in Managers : installed[m] }

\* C28: the candidate list install_package walks is a permutation of the
\* available managers: each appears exactly once, no other manager appears.
C28_CandidatesArePermutation ==
    (op = "install" /\ pc # "idle") =>
        /\ Range(candidates) = AvailableManagers
        /\ Len(candidates) = Cardinality(AvailableManagers)

\* C28 witness: three managers are available, one of them (npm) is reached
\* neither by a heuristic nor by the system priority, and the preferred
\* manager was moved to the front
C28_Witness ==
    /\ op = "install" /\ pc = "loop"
    /\ PreferredAvailable
    /\ installed["npm"] /\ ~_looks_like_npm_pkg(pkg) /\ name_lower(preferred) # "npm"
    /\ Len(candidates) = 3
    /\ candidates[1] = name_lower(preferred)
    /\ candidates[3] = "npm"

\* main --install-from has returned for a file with at least one package line
BulkFinished ==
    /\ exitCode # << >>
    /\ reqfile.exists
    /\ PackageLines(reqfile.data) # <<>>
    /\ "total_packages" \in DOMAIN bulkRet

\* the packages were installed one after another in file order
InFileOrder ==
    /\ Len(bulkRet.results) = Len(PackageLines(reqfile.data))
    /\ \A i \in 1..Len(bulkRet.results) :
           bulkRet.results[i].package = PackageLines(reqfile.data)[i]

\* successful + failed = total_packages = number of package lines
CountsAddUp ==
    /\ bulkRet.successful + bulkRet.failed = bulkRet.total_packages
    /\ bulkRet.total_packages = Len(PackageLines(reqfile.data))

\* C30: for a requirements file with at least one package line the packages
\* are installed in file order, successful + failed = total_packages = the
\* number of package lines, and main --install-from returns 0 exactly when
\* no package failed and 1 otherwise
C30_BulkCountsAndExitCode ==
    BulkFinished =>
        /\ InFileOrder
        /\ CountsAddUp
        /\ exitCode = << IF bulkRet.failed = 0 THEN 0 ELSE 1 >>

\* the part of C30 about the returned dict alone
C30_BulkCounts ==
    BulkFinished => (InFileOrder /\ CountsAddUp)

\* every package line was installed and main has returned
C30_AllInstalled ==
    BulkFinished /\ bulkRet.failed = 0 /\ bulkRet.successful = Len(lines)

\* main --install-from never returns 0
C30_ExitCodeAlwaysOne ==
    exitCode # << >> => exitCode = << 1 >>

====
